---- MODULE Spec2Model ----
(***************************************************************************)
(* PDFRenderer (src/src/js/PDFRenderer.js): the per-tab document registry, *)
(* the page element registry, the shared viewer, the asynchronous render   *)
(* passes and the debounced scroll listener, as a state machine.           *)
(*                                                                         *)
(* JavaScript runs one task at a time: every action below is the code that *)
(* runs between two awaits (or a whole synchronous handler).  A promise    *)
(* that settles and the continuation awaiting it are taken as one step.    *)
(* The PDF library (getDocument, getPage, render, getTextContent) and the  *)
(* DOM geometry are inputs: each call's outcome is drawn with \E.          *)
(***************************************************************************)
EXTENDS Integers, Sequences, FiniteSets, TLC

\* ------------------------------------------------------------------ bounds
MaxCalls == 2                    \* calls of the public methods in one run

Tabs == {1, 2}
MaxScrolls == 2                  \* scroll events in one run
TickMs == 50                     \* ms of time that pass in one Tick
Delay == 100                     \* setTimeout(..., 100)
LoadIds == {1, 2}                \* loadDocument calls in one run
PageCounts == {1, 2}             \* numPages of the documents that are loaded
ZoomArgs == {2}                  \* zoom arguments of setZoom
RotationArgs == {90}
PageWidth == 100                 \* width of page 1 at scale 1.0
ContainerWidths == {2 * PageWidth}   \* containerWidth arguments of fitToWidth
LayoutArgs == {"two-page"}
ScrollPositions == {30}          \* container.scrollTop at a scroll event
PageArgs == 0..3                 \* pageNum arguments of goToPage

VARIABLES
  documents,      \* this.documents: tab -> handle (0: no entry)
  pageElements,   \* this.pageElements: tab -> <<>> (no entry) or <<pages>>
  handles,        \* every document handle the library created, in order
  tabs,           \* app.tabManager's tab records
  viewer,         \* children of this.viewer
  twoPage,        \* this.viewer.classList has 'two-page-layout'
  renders,        \* renderDocument calls suspended in createPageContainer
  loads,          \* loadDocument calls suspended at loadingTask.promise
  fits,           \* fitToWidth calls suspended at doc.getPage(1)
  nextPass,       \* number of the next renderDocument pass
  nextLoad,       \* number of the next loadDocument call
  calls,          \* public method calls made so far
  closedSince,    \* tabs closed by closeDocument with no loadDocument call since
  scrollTop,      \* this.container.scrollTop
  pageNumberInput,\* document.getElementById('page-number').value
  sidebarPage,    \* app.sidebar's current page per tab
  activeTab,      \* app.tabManager.getActiveTab() (0: none)
  timers,         \* pending setTimeout timers of the scroll listener
  scrollTimeout,  \* the listener's scrollTimeout variable (0: undefined)
  sinceScroll,    \* ms since the last scroll event with an active tab
  scrollsLeft,    \* scroll events still to come
  ev              \* what the last step did

vars == <<documents, pageElements, handles, tabs, viewer, twoPage, renders,
          loads, fits, nextPass, nextLoad, calls, closedSince, scrollTop,
          pageNumberInput, sidebarPage, activeTab, timers, scrollTimeout,
          sinceScroll, scrollsLeft, ev>>

scrollVars == <<activeTab, timers, scrollTimeout, sinceScroll, scrollsLeft>>
\* ----------------------------------------------------------------- helpers
NoCaller == [kind |-> "none", load |-> 0, handle |-> 0, page |-> 0]
NoError == [src |-> "none", n |-> 0]

EvBase ==
  [op |-> "init", tab |-> 0, pass |-> 0, page |-> 0, arg |-> 0, textOk |-> TRUE,
   started |-> 0, wrote |-> 0, load |-> 0, loadResult |-> "none", alerts |-> 0,
   occurred |-> NoError, thrown |-> NoError, returned |-> 0, doc |-> 0,
   alone |-> FALSE, prev |-> 0, since |-> 0]

HasDoc(t) == documents[t] # 0
HasPages(t) == pageElements[t] # <<>>
PagesOf(t) == pageElements[t][1]

\* app.tabManager.getTab(tabId) is undefined for a tab record that is gone.
GetTab(tbs, t) == tbs[t].exists

\* app.tabManager.updateTab(tabId, {field: value})
UpdateTab(tbs, t, field, value) ==
  IF tbs[t].exists THEN [tbs EXCEPT ![t] = [@ EXCEPT ![field] = value]] ELSE tbs

\* const scale = tab.zoom || 1.0
ScaleOf(tab) == IF tab.zoom = 0 THEN 1 ELSE tab.zoom
\* const rotation = tab.rotation || 0
RotationOf(tab) == IF tab.rotation = 0 THEN 0 ELSE tab.rotation

EmptyState ==
  [kind |-> "empty-state", tab |-> 0, page |-> 0, pass |-> 0, scale |-> 0,
   rotation |-> 0, text |-> FALSE, children |-> <<>>]

\* The element createPageContainer returns: canvas, text layer, annotation layer.
PageContainer(r, textOk) ==
  [kind |-> "page-container", tab |-> r.tab, page |-> r.pageNum, pass |-> r.id,
   scale |-> r.scale, rotation |-> r.rotation, text |-> textOk,
   children |-> <<"pdf-page", "text-layer", "annotation-layer">>]

\* The try/catch around the text layer left out.
CreatePageContainerThrowsOnText(pageOk, textOk) == ~pageOk \/ ~textOk

\* Whether createPageContainer rejects: getPage or page.render threw (pageOk is
\* FALSE); a text layer failure is caught and logged.
CreatePageContainerThrows(pageOk, textOk) == ~pageOk

\* ---------------------------------------------------------------- goToPage
\* if (!pages || pageNum < 1 || pageNum > pages.length) return;
GoToPageWrites(pe, t, pageNum) ==
  /\ pe[t] # <<>>
  /\ pageNum >= 1
  /\ pageNum <= Len(pe[t][1])

GoToPage(tbs, pe, t, pageNum) ==
  IF GoToPageWrites(pe, t, pageNum)
  THEN /\ tabs' = UpdateTab(tbs, t, "currentPage", pageNum)
       /\ pageNumberInput' = pageNum
       /\ sidebarPage' = [sidebarPage EXCEPT ![t] = pageNum]
  ELSE /\ tabs' = tbs
       /\ UNCHANGED <<pageNumberInput, sidebarPage>>

\* ---------------------------------------------------------- renderDocument
\* The two early returns of renderDocument.
StartsPass(docs, tbs, t) == docs[t] # 0 /\ GetTab(tbs, t)

\* The pass suspended in createPageContainer(doc, 1, tabId) at doc.getPage(1).
NewPass(docs, tbs, t, caller) ==
  [id |-> nextPass, tab |-> t, doc |-> docs[t], pageNum |-> 1, pages |-> <<>>,
   scale |-> ScaleOf(tbs[t]), rotation |-> RotationOf(tbs[t]),
   caller |-> caller, alone |-> renders = {}]

NotAlone(rs) == {[r EXCEPT !.alone = FALSE] : r \in rs}

\* renderDocument without this.viewer.innerHTML = ''.
RenderDocumentKeepsViewer(docs, tbs, t, caller) ==
  IF StartsPass(docs, tbs, t)
  THEN /\ viewer' = viewer
       /\ twoPage' = (tbs[t].pageLayout = "two-page")
       /\ renders' = NotAlone(renders) \cup {NewPass(docs, tbs, t, caller)}
       /\ nextPass' = nextPass + 1
  ELSE UNCHANGED <<viewer, twoPage, renders, nextPass>>

\* renderDocument(tabId) up to its first await, with the registry and the tab
\* records as its caller left them.
RenderDocument(docs, tbs, t, caller) ==
  IF StartsPass(docs, tbs, t)
  THEN /\ viewer' = <<>>
       /\ twoPage' = (tbs[t].pageLayout = "two-page")
       /\ renders' = NotAlone(renders) \cup {NewPass(docs, tbs, t, caller)}
       /\ nextPass' = nextPass + 1
  ELSE UNCHANGED <<viewer, twoPage, renders, nextPass>>

StartedPass(docs, tbs, t) == IF StartsPass(docs, tbs, t) THEN nextPass ELSE 0

\* ------------------------------------------------------------ loadDocument
LoadStart(t, d) ==
  /\ nextLoad \in LoadIds
  /\ calls < MaxCalls
  /\ calls' = calls + 1
  /\ loads' = loads \cup {[id |-> nextLoad, tab |-> t, data |-> d]}
  /\ nextLoad' = nextLoad + 1
  /\ closedSince' = closedSince \ {t}
  /\ ev' = [EvBase EXCEPT !.op = "loadDocument", !.tab = t, !.load = nextLoad]
  /\ UNCHANGED <<documents, pageElements, handles, tabs, viewer, twoPage,
                 renders, fits, nextPass, scrollTop, pageNumberInput,
                 sidebarPage>>
  /\ UNCHANGED scrollVars

\* loadingTask.promise resolved: register the handle, then render.
LoadDecoded(l) ==
  LET h == Len(handles) + 1
      docs == [documents EXCEPT ![l.tab] = h]
      caller == [kind |-> "load", load |-> l.id, handle |-> h, page |-> 0]
  IN /\ l \in loads
     /\ loads' = loads \ {l}
     /\ handles' = Append(handles, [tab |-> l.tab, load |-> l.id,
                                    numPages |-> l.data, destroyed |-> FALSE])
     /\ documents' = docs
     /\ pageElements' = [pageElements EXCEPT ![l.tab] = << <<>> >>]
     /\ RenderDocument(docs, tabs, l.tab, caller)
     /\ ev' = [EvBase EXCEPT !.op = "loadDecoded", !.tab = l.tab, !.load = l.id,
                 !.started = StartedPass(docs, tabs, l.tab),
                 !.loadResult = IF StartsPass(docs, tabs, l.tab) THEN "none" ELSE "ok",
                 !.returned = IF StartsPass(docs, tabs, l.tab) THEN 0 ELSE h]
     /\ UNCHANGED <<calls, tabs, fits, nextLoad, closedSince, scrollTop,
                    pageNumberInput, sidebarPage>>
     /\ UNCHANGED scrollVars

\* A catch that throws a new error in place of the one it caught.
LoadCatchWraps(e) == [alerts |-> 1, thrown |-> [src |-> "wrapped", n |-> e.n]]

\* catch (error) { console.error(...); alert(...); throw error; }
LoadCatch(e) == [alerts |-> 1, thrown |-> e]

\* loadingTask.promise rejected.
LoadDecodeFailed(l) ==
  LET e == [src |-> "decode", n |-> l.id]
  IN /\ l \in loads
     /\ loads' = loads \ {l}
     /\ ev' = [EvBase EXCEPT !.op = "loadFailed", !.tab = l.tab, !.load = l.id,
                 !.loadResult = "rejected", !.occurred = e,
                 !.alerts = LoadCatch(e).alerts, !.thrown = LoadCatch(e).thrown]
     /\ UNCHANGED <<calls, documents, pageElements, handles, tabs, viewer, twoPage,
                    renders, fits, nextPass, nextLoad, closedSince, scrollTop,
                    pageNumberInput, sidebarPage>>
     /\ UNCHANGED scrollVars

\* ----------------------------------------------- a render pass, page by page
NumPages(r) == handles[r.doc].numPages

\* return pdfDoc;
LoadReturns(r) == r.caller.handle

\* A pass settles with error e (NoError: it fulfils) and its awaiting caller
\* continues: loadDocument returns or catches, setRotation goes to the page.
Settle(r, op, e, pe, textOk) ==
  LET isLoad == r.caller.kind = "load"
      goes == e = NoError /\ r.caller.kind = "setRotation"
  IN /\ renders' = renders \ {r}
     /\ IF goes THEN GoToPage(tabs, pe, r.tab, r.caller.page)
                ELSE UNCHANGED <<tabs, pageNumberInput, sidebarPage>>
     /\ ev' = [EvBase EXCEPT
                 !.op = op, !.tab = r.tab, !.pass = r.id, !.page = r.pageNum,
                 !.textOk = textOk, !.doc = r.doc, !.alone = r.alone,
                 !.arg = IF goes THEN r.caller.page ELSE 0,
                 !.wrote = IF goes /\ GoToPageWrites(pe, r.tab, r.caller.page)
                           THEN 1 ELSE 0,
                 !.load = r.caller.load,
                 !.loadResult = IF ~isLoad THEN "none"
                                ELSE IF e = NoError THEN "ok" ELSE "rejected",
                 !.occurred = e,
                 !.alerts = IF isLoad /\ e # NoError THEN LoadCatch(e).alerts ELSE 0,
                 !.thrown = IF isLoad /\ e # NoError THEN LoadCatch(e).thrown ELSE e,
                 !.returned = IF isLoad /\ e = NoError THEN LoadReturns(r) ELSE 0]

\* The page kept for later instead of appended as soon as it is rendered.
AppendChildDeferred(v, c) == v

\* this.viewer.appendChild(pageContainer)
AppendChild(v, c) == Append(v, c)

\* The awaited createPageContainer(doc, pageNum, tabId) of pass r settles, and
\* the loop of renderDocument runs on to its next await or to its end.
CreatePageContainerSettles(r, pageOk, textOk) ==
  LET c == PageContainer(r, textOk)
      pages == Append(r.pages, c)
      pe == [pageElements EXCEPT ![r.tab] = <<pages>>]
  IN /\ r \in renders
     /\ UNCHANGED <<calls, documents, handles, twoPage, loads, fits, nextPass, nextLoad,
                    closedSince, scrollTop>>
     /\ UNCHANGED scrollVars
     /\ IF CreatePageContainerThrows(pageOk, textOk)
        THEN \* the await throws out of the loop
             /\ UNCHANGED <<viewer, pageElements>>
             /\ Settle(r, "renderFailed",
                       [src |-> IF pageOk THEN "text" ELSE "page", n |-> r.id],
                       pageElements, textOk)
        ELSE /\ viewer' = AppendChild(viewer, c)
             /\ IF r.pageNum < NumPages(r)
                THEN IF GetTab(tabs, r.tab)
                     THEN \* createPageContainer(doc, pageNum + 1, tabId) suspends
                          /\ renders' = (renders \ {r}) \cup
                               {[r EXCEPT !.pageNum = r.pageNum + 1, !.pages = pages,
                                          !.scale = ScaleOf(tabs[r.tab]),
                                          !.rotation = RotationOf(tabs[r.tab])]}
                          /\ ev' = [EvBase EXCEPT !.op = "pageDone", !.tab = r.tab,
                                      !.pass = r.id, !.page = r.pageNum,
                                      !.textOk = textOk, !.doc = r.doc,
                                      !.alone = r.alone]
                          /\ UNCHANGED <<pageElements, tabs, pageNumberInput,
                                         sidebarPage>>
                     ELSE \* tab is undefined: tab.zoom throws a TypeError
                          /\ UNCHANGED pageElements
                          /\ Settle(r, "renderFailed",
                                    [src |-> "type", n |-> r.id], pageElements, textOk)
                ELSE \* this.pageElements.set(tabId, pages)
                     /\ pageElements' = pe
                     /\ Settle(r, "renderDone", NoError, pe, textOk)

\* ------------------------------------------------------------- switchToTab
SwitchToTab(t) ==
  /\ calls < MaxCalls
  /\ calls' = calls + 1
  /\ IF ~HasDoc(t)
     THEN /\ viewer' = <<EmptyState>>
          /\ renders' = NotAlone(renders)
          /\ UNCHANGED <<twoPage, nextPass, scrollTop>>
     ELSE /\ RenderDocument(documents, tabs, t, NoCaller)
          /\ scrollTop' = IF GetTab(tabs, t) /\ tabs[t].scrollPosition # 0
                          THEN tabs[t].scrollPosition ELSE scrollTop
  /\ ev' = [EvBase EXCEPT !.op = "switchToTab", !.tab = t,
              !.started = IF HasDoc(t) THEN StartedPass(documents, tabs, t) ELSE 0]
  /\ UNCHANGED <<documents, pageElements, handles, tabs, loads, fits, nextLoad,
                 closedSince, pageNumberInput, sidebarPage>>
  /\ UNCHANGED scrollVars

\* ----------------------------------------------------------- closeDocument
\* if (doc) doc.destroy();
DestroyDoc(hs, h) == IF h # 0 THEN [hs EXCEPT ![h].destroyed = TRUE] ELSE hs

\* A closeDocument that also drops the tab's passes in flight.
CloseDocumentCancels(t) ==
  /\ calls < MaxCalls
  /\ calls' = calls + 1
  /\ handles' = DestroyDoc(handles, documents[t])
  /\ documents' = [documents EXCEPT ![t] = 0]
  /\ pageElements' = [pageElements EXCEPT ![t] = <<>>]
  /\ closedSince' = closedSince \cup {t}
  /\ renders' = {r \in renders : r.tab # t}
  /\ ev' = [EvBase EXCEPT !.op = "closeDocument", !.tab = t]
  /\ UNCHANGED <<tabs, viewer, twoPage, loads, fits, nextPass, nextLoad,
                 scrollTop, pageNumberInput, sidebarPage>>
  /\ UNCHANGED scrollVars

CloseDocument(t) ==
  /\ calls < MaxCalls
  /\ calls' = calls + 1
  /\ handles' = DestroyDoc(handles, documents[t])
  /\ documents' = [documents EXCEPT ![t] = 0]
  /\ pageElements' = [pageElements EXCEPT ![t] = <<>>]
  /\ closedSince' = closedSince \cup {t}
  /\ ev' = [EvBase EXCEPT !.op = "closeDocument", !.tab = t]
  /\ UNCHANGED <<tabs, viewer, twoPage, renders, loads, fits, nextPass, nextLoad,
                 scrollTop, pageNumberInput, sidebarPage>>
  /\ UNCHANGED scrollVars

\* ------------------------------------------------- zoom, rotation, layout
\* tab.zoom = zoom;
SetZoomStores(tbs, t, zoom) == [tbs EXCEPT ![t].zoom = zoom]

SetZoom(t, zoom) ==
  /\ calls < MaxCalls
  /\ calls' = calls + 1
  /\ IF ~GetTab(tabs, t)
     THEN /\ UNCHANGED <<tabs, viewer, twoPage, renders, nextPass>>
          /\ ev' = [EvBase EXCEPT !.op = "setZoom", !.tab = t, !.arg = zoom]
     ELSE /\ tabs' = SetZoomStores(tabs, t, zoom)
          /\ RenderDocument(documents, tabs', t, NoCaller)
          /\ ev' = [EvBase EXCEPT !.op = "setZoom", !.tab = t, !.arg = zoom,
                      !.started = StartedPass(documents, tabs', t)]
  /\ UNCHANGED <<documents, pageElements, handles, loads, fits, nextLoad,
                 closedSince, scrollTop, pageNumberInput, sidebarPage>>
  /\ UNCHANGED scrollVars

\* fitToWidth up to await doc.getPage(1)
FitToWidth(t, containerWidth) ==
  /\ fits = {}
  /\ calls < MaxCalls
  /\ calls' = calls + 1
  /\ fits' = IF HasDoc(t)
             THEN {[tab |-> t, doc |-> documents[t], width |-> containerWidth]}
             ELSE fits
  /\ ev' = [EvBase EXCEPT !.op = "fitToWidth", !.tab = t, !.arg = containerWidth]
  /\ UNCHANGED <<documents, pageElements, handles, tabs, viewer, twoPage, renders,
                 loads, nextPass, nextLoad, closedSince, scrollTop,
                 pageNumberInput, sidebarPage>>
  /\ UNCHANGED scrollVars

\* const scale = containerWidth / viewport.width;
FitScale(containerWidth) == containerWidth \div PageWidth

\* doc.getPage(1) resolved: store the scale, then render.
FitToWidthResumes(f) ==
  LET tbs == UpdateTab(tabs, f.tab, "zoom", FitScale(f.width))
  IN /\ f \in fits
     /\ fits' = fits \ {f}
     /\ tabs' = tbs
     /\ RenderDocument(documents, tbs, f.tab, NoCaller)
     /\ ev' = [EvBase EXCEPT !.op = "fitToWidthResumed", !.tab = f.tab,
                 !.arg = FitScale(f.width),
                 !.started = StartedPass(documents, tbs, f.tab)]
     /\ UNCHANGED <<calls, documents, pageElements, handles, loads, nextLoad,
                    closedSince, scrollTop, pageNumberInput, sidebarPage>>
     /\ UNCHANGED scrollVars

\* doc.getPage(1) rejected: fitToWidth rejects, nothing is stored.
FitToWidthFails(f) ==
  /\ f \in fits
  /\ fits' = fits \ {f}
  /\ ev' = [EvBase EXCEPT !.op = "fitToWidthFailed", !.tab = f.tab]
  /\ UNCHANGED <<calls, documents, pageElements, handles, tabs, viewer, twoPage, renders,
                 loads, nextPass, nextLoad, closedSince, scrollTop,
                 pageNumberInput, sidebarPage>>
  /\ UNCHANGED scrollVars

\* const currentPage = tab.currentPage || 1;
CurrentPageOr1(tab) == IF tab.currentPage = 0 THEN 1 ELSE tab.currentPage

SetRotation(t, rotation) ==
  LET caller == [kind |-> "setRotation", load |-> 0, handle |-> 0,
                 page |-> CurrentPageOr1(tabs[t])]
  IN /\ calls < MaxCalls
     /\ calls' = calls + 1
     /\ IF ~GetTab(tabs, t)
        THEN /\ UNCHANGED <<tabs, viewer, twoPage, renders, nextPass,
                            pageNumberInput, sidebarPage>>
             /\ ev' = [EvBase EXCEPT !.op = "setRotation", !.tab = t,
                         !.arg = rotation]
        ELSE /\ RenderDocument(documents, tabs, t, caller)
             /\ IF StartsPass(documents, tabs, t)
                THEN UNCHANGED <<tabs, pageNumberInput, sidebarPage>>
                ELSE \* renderDocument returned at once: goToPage follows
                     GoToPage(tabs, pageElements, t, caller.page)
             /\ ev' = [EvBase EXCEPT !.op = "setRotation", !.tab = t,
                         !.arg = rotation,
                         !.started = StartedPass(documents, tabs, t),
                         !.wrote = IF ~StartsPass(documents, tabs, t)
                                      /\ GoToPageWrites(pageElements, t, caller.page)
                                   THEN 1 ELSE 0]
     /\ UNCHANGED <<documents, pageElements, handles, loads, fits, nextLoad,
                    closedSince, scrollTop>>
     /\ UNCHANGED scrollVars

SetPageLayout(t, layout) ==
  /\ calls < MaxCalls
  /\ calls' = calls + 1
  /\ RenderDocument(documents, tabs, t, NoCaller)
  /\ ev' = [EvBase EXCEPT !.op = "setPageLayout", !.tab = t,
              !.arg = IF layout = "two-page" THEN 2 ELSE 1,
              !.started = StartedPass(documents, tabs, t)]
  /\ UNCHANGED <<documents, pageElements, handles, tabs, loads, fits, nextLoad,
                 closedSince, scrollTop, pageNumberInput, sidebarPage>>
  /\ UNCHANGED scrollVars

\* ------------------------------------------------------- the tab manager
\* The shell drops a tab record (its close-tab path).
TabRemoved(t) ==
  /\ calls < MaxCalls
  /\ calls' = calls + 1
  /\ tabs[t].exists
  /\ tabs' = [tabs EXCEPT ![t].exists = FALSE]
  /\ ev' = [EvBase EXCEPT !.op = "tabRemoved", !.tab = t]
  /\ UNCHANGED <<documents, pageElements, handles, viewer, twoPage, renders,
                 loads, fits, nextPass, nextLoad, closedSince, scrollTop,
                 pageNumberInput, sidebarPage>>
  /\ activeTab' = IF activeTab = t THEN 0 ELSE activeTab
  /\ UNCHANGED <<timers, scrollTimeout, sinceScroll, scrollsLeft>>

\* ------------------------------------------------------------------- Spec
NewTab(layout) ==
  [exists |-> TRUE, zoom |-> 1, rotation |-> 0, pageLayout |-> layout,
   currentPage |-> 1, scrollPosition |-> 0]

InitScrollIdle ==
  /\ activeTab = 0
  /\ timers = {}
  /\ scrollTimeout = 0
  /\ sinceScroll = 0
  /\ scrollsLeft = 0

Init ==
  /\ documents = [t \in Tabs |-> 0]
  /\ pageElements = [t \in Tabs |-> <<>>]
  /\ handles = <<>>
  /\ tabs = [t \in Tabs |-> NewTab(IF t = 1 THEN "single" ELSE "two-page")]
  /\ viewer = <<>>
  /\ twoPage = FALSE
  /\ renders = {}
  /\ loads = {}
  /\ fits = {}
  /\ nextPass = 1
  /\ nextLoad = 1
  /\ calls = 0
  /\ closedSince = {}
  /\ scrollTop = 0
  /\ pageNumberInput = 1
  /\ sidebarPage = [t \in Tabs |-> 1]
  /\ InitScrollIdle
  /\ ev = EvBase

LoadSteps ==
  \/ \E t \in Tabs, d \in PageCounts : LoadStart(t, d)
  \/ \E l \in loads : LoadDecoded(l)
  \/ \E l \in loads : LoadDecodeFailed(l)
  \/ \E r \in renders, ok \in {<<TRUE, TRUE>>, <<TRUE, FALSE>>, <<FALSE, TRUE>>} :
       CreatePageContainerSettles(r, ok[1], ok[2])
  \/ \E t \in Tabs : TabRemoved(t)

\* Loading, switching and closing tabs.
Next ==
  \/ LoadSteps
  \/ \E t \in Tabs : SwitchToTab(t)
  \/ \E t \in Tabs : CloseDocument(t)

Spec == Init /\ [][Next]_vars

\* Loading and the view-state mutators.
NextView ==
  \/ LoadSteps
  \/ \E t \in Tabs, z \in ZoomArgs : SetZoom(t, z)
  \/ \E t \in Tabs, w \in ContainerWidths : FitToWidth(t, w)
  \/ \E f \in fits : FitToWidthResumes(f)
  \/ \E f \in fits : FitToWidthFails(f)
  \/ \E t \in Tabs, rot \in RotationArgs : SetRotation(t, rot)
  \/ \E t \in Tabs, layout \in LayoutArgs : SetPageLayout(t, layout)

SpecView == Init /\ [][NextView]_vars

\* ------------------------------------------------------ the scroll listener
\* clearTimeout(scrollTimeout)
ClearTimeoutSkipped(tms, id) == tms

ClearTimeout(tms, id) == {tm \in tms : tm.id # id}

\* How many scroll events the timer set now stands for: those of the pending
\* timer it replaces, and this one.
BurstOf(tms, id) ==
  IF \E tm \in tms : tm.id = id
  THEN (CHOOSE tm \in tms : tm.id = id).burst + 1
  ELSE 1

\* The 'scroll' listener of this.container.
ScrollEvent(pos) ==
  LET id == MaxScrolls - scrollsLeft + 1
  IN /\ scrollsLeft > 0
     /\ scrollsLeft' = scrollsLeft - 1
     /\ scrollTop' = pos
     /\ IF activeTab = 0
        THEN UNCHANGED <<tabs, timers, scrollTimeout, sinceScroll>>
        ELSE /\ tabs' = UpdateTab(tabs, activeTab, "scrollPosition", pos)
             /\ timers' = ClearTimeout(timers, scrollTimeout) \cup
                            {[id |-> id, tab |-> activeTab, left |-> Delay,
                              burst |-> BurstOf(timers, scrollTimeout)]}
             /\ scrollTimeout' = id
             /\ sinceScroll' = 0
     /\ ev' = [EvBase EXCEPT !.op = "scroll", !.tab = activeTab, !.arg = pos]
     /\ UNCHANGED <<documents, pageElements, handles, viewer, twoPage, renders,
                    loads, fits, nextPass, nextLoad, calls, closedSince,
                    pageNumberInput, sidebarPage, activeTab>>

\* Time passes.
Tick ==
  /\ sinceScroll < Delay \/ \E tm \in timers : tm.left > 0
  /\ timers' = {[tm EXCEPT !.left = IF tm.left > TickMs THEN tm.left - TickMs ELSE 0] :
                  tm \in timers}
  /\ sinceScroll' = IF sinceScroll + TickMs < Delay THEN sinceScroll + TickMs
                    ELSE Delay
  /\ ev' = [EvBase EXCEPT !.op = "tick"]
  /\ UNCHANGED <<documents, pageElements, handles, tabs, viewer, twoPage, renders,
                 loads, fits, nextPass, nextLoad, calls, closedSince, scrollTop,
                 pageNumberInput, sidebarPage, activeTab, scrollTimeout,
                 scrollsLeft>>

\* The loop of detectCurrentPage without its break.
RECURSIVE DetectWritesNoBreak(_, _, _, _)
DetectWritesNoBreak(n, hits, i, tab) ==
  IF i > n THEN <<>>
  ELSE IF i \in hits
       THEN (IF tab.exists /\ tab.currentPage # i THEN <<i>> ELSE <<>>)
            \o DetectWritesNoBreak(n, hits, i + 1,
                                   IF tab.exists THEN [tab EXCEPT !.currentPage = i]
                                   ELSE tab)
       ELSE DetectWritesNoBreak(n, hits, i + 1, tab)

\* The loop of detectCurrentPage from index i (1-based) over n pages: the page
\* numbers it writes.  hits are the pages whose rectangle holds the centre of
\* the container.
RECURSIVE DetectWrites(_, _, _, _)
DetectWrites(n, hits, i, tab) ==
  IF i > n THEN <<>>
  ELSE IF i \in hits
       THEN IF tab.exists /\ tab.currentPage # i THEN <<i>> ELSE <<>>
       ELSE DetectWrites(n, hits, i + 1, tab)

\* What detectCurrentPage(tabId) writes.
DetectCurrentPage(t, hits) ==
  IF pageElements[t] = <<>> THEN <<>>
  ELSE DetectWrites(Len(pageElements[t][1]), hits, 1, tabs[t])

\* The timer of the scroll listener fires: detectCurrentPage(activeTab.id).
TimerFires(tm, hits) ==
  LET ws == DetectCurrentPage(tm.tab, hits)
      last == ws[Len(ws)]
  IN /\ tm \in timers
     /\ tm.left = 0
     /\ pageElements[tm.tab] # <<>> => hits \subseteq 1..Len(pageElements[tm.tab][1])
     /\ pageElements[tm.tab] = <<>> => hits = {}
     /\ timers' = timers \ {tm}
     /\ IF ws = <<>>
        THEN UNCHANGED <<tabs, pageNumberInput, sidebarPage>>
        ELSE /\ tabs' = UpdateTab(tabs, tm.tab, "currentPage", last)
             /\ pageNumberInput' = last
             /\ sidebarPage' = [sidebarPage EXCEPT ![tm.tab] = last]
     /\ ev' = [EvBase EXCEPT !.op = "detect", !.tab = tm.tab, !.arg = tm.burst,
                 !.since = sinceScroll, !.wrote = Len(ws),
                 !.page = IF ws = <<>> THEN 0 ELSE last,
                 !.prev = tabs[tm.tab].currentPage]
     /\ UNCHANGED <<documents, pageElements, handles, viewer, twoPage, renders,
                    loads, fits, nextPass, nextLoad, calls, closedSince, scrollTop,
                    activeTab, scrollTimeout, sinceScroll, scrollsLeft>>

\* A call of goToPage(tabId, pageNum) from the shell.
GoToPageCall(t, pageNum) ==
  /\ calls < MaxCalls
  /\ calls' = calls + 1
  /\ GoToPage(tabs, pageElements, t, pageNum)
  /\ ev' = [EvBase EXCEPT !.op = "goToPage", !.tab = t, !.arg = pageNum,
              !.page = IF GoToPageWrites(pageElements, t, pageNum) THEN pageNum ELSE 0,
              !.wrote = IF GoToPageWrites(pageElements, t, pageNum) THEN 1 ELSE 0,
              !.prev = tabs[t].currentPage]
  /\ UNCHANGED <<documents, pageElements, handles, viewer, twoPage, renders,
                 loads, fits, nextPass, nextLoad, closedSince, scrollTop>>
  /\ UNCHANGED scrollVars

\* The tab manager makes another tab, or none, the active one.
SetActiveTab(t) ==
  /\ t # activeTab
  /\ t # 0 => tabs[t].exists
  /\ activeTab' = t
  /\ ev' = [EvBase EXCEPT !.op = "activate", !.tab = t]
  /\ UNCHANGED <<documents, pageElements, handles, tabs, viewer, twoPage, renders,
                 loads, fits, nextPass, nextLoad, calls, closedSince, scrollTop,
                 pageNumberInput, sidebarPage, timers, scrollTimeout,
                 sinceScroll, scrollsLeft>>

\* Pages 1..n of tab t as its last complete pass left them.
RenderedPages(t, n) ==
  [k \in 1..n |->
     PageContainer([tab |-> t, pageNum |-> k, id |-> t, scale |-> 1,
                    rotation |-> 0], TRUE)]

\* The viewer at rest: tab 1 has a document whose render left no page (0) or
\* n pages, tab 2 one with two pages.
InitScroll ==
  \E n \in [Tabs -> {0, 1, 2}] :
    /\ n[2] = 2
    /\ documents = [t \in Tabs |-> IF n[t] = -1 THEN 0 ELSE t]
    /\ pageElements =
         [t \in Tabs |-> IF n[t] = -1 THEN <<>> ELSE <<RenderedPages(t, n[t])>>]
    /\ handles = [t \in Tabs |->
                    [tab |-> t, load |-> t,
                     numPages |-> IF n[t] < 1 THEN 1 ELSE n[t],
                     destroyed |-> n[t] = -1]]
    /\ tabs = [t \in Tabs |-> NewTab(IF t = 1 THEN "single" ELSE "two-page")]
    /\ viewer = <<>>
    /\ twoPage = FALSE
    /\ renders = {}
    /\ loads = {}
    /\ fits = {}
    /\ nextPass = 3
    /\ nextLoad = 3
    /\ calls = 0
    /\ closedSince = {t \in Tabs : n[t] = -1}
    /\ scrollTop = 0
    /\ pageNumberInput = 1
    /\ sidebarPage = [t \in Tabs |-> 1]
    /\ activeTab = 0
    /\ timers = {}
    /\ scrollTimeout = 0
    /\ sinceScroll = 0
    /\ scrollsLeft = MaxScrolls
    /\ ev = EvBase

Fires == \E tm \in timers, hits \in SUBSET (1..2) : TimerFires(tm, hits)

\* Scrolling, the passing of time and the tab manager.
NextScroll ==
  \/ \E pos \in ScrollPositions : ScrollEvent(pos)
  \/ Tick
  \/ Fires
  \/ \E t \in Tabs \cup {0} : SetActiveTab(t)
  \/ \E t \in Tabs : TabRemoved(t)

\* Time passes and a timer that is due fires.
SpecScroll ==
  InitScroll /\ [][NextScroll]_vars /\ WF_vars(Tick) /\ WF_vars(Fires)

\* Scrolling, page navigation and closing.
NextPages ==
  \/ NextScroll
  \/ \E t \in Tabs, p \in PageArgs : GoToPageCall(t, p)
  \/ \E t \in Tabs : CloseDocument(t)

SpecPages == InitScroll /\ [][NextPages]_vars

\* ================================================================ claims
IsPageOf(c, pass, tab, k) ==
  /\ c.kind = "page-container"
  /\ c.pass = pass
  /\ c.tab = tab
  /\ c.page = k
  /\ c.children = <<"pdf-page", "text-layer", "annotation-layer">>

\* ps is pages 1..n of one pass, in order.
IsRebuiltBy(ps, pass, tab, n) ==
  /\ Len(ps) = n
  /\ \A k \in 1..Len(ps) : IsPageOf(ps[k], pass, tab, k)

LiveHandles(t) ==
  {h \in 1..Len(handles) : handles[h].tab = t /\ ~handles[h].destroyed}

\* C1 (as claimed): every tab has at most one live document handle, i.e. the
\* handles created for a tab minus those destroyed is never more than 1.
C1_AtMostOneLiveHandle == \A t \in Tabs : Cardinality(LiveHandles(t)) <= 1

\* C2 (as claimed): from closeDocument(tabId) until the next loadDocument call
\* for tabId neither registry has an entry for tabId, and no handle of the tab
\* is live, whatever was in flight when closeDocument ran.
C2_ClosedUntilNextLoad ==
  \A t \in closedSince :
    /\ documents[t] = 0
    /\ pageElements[t] = <<>>
    /\ LiveHandles(t) = {}

\* C3 (as claimed): when a renderDocument pass completes, the page element
\* sequence of its tab is pages 1..numPages, all made by this pass, and the
\* viewer's children are exactly that sequence.
C3_RenderDoneRebuildsViewer ==
  ev.op = "renderDone" =>
    /\ HasPages(ev.tab)
    /\ IsRebuiltBy(PagesOf(ev.tab), ev.pass, ev.tab, handles[ev.doc].numPages)
    /\ viewer = PagesOf(ev.tab)

\* C3 (amended): when a renderDocument pass completes, the page element
\* sequence of its tab is pages 1..numPages, all made by this pass; the
\* viewer's children are exactly that sequence when no other pass was in
\* flight at any time during this pass and no switchToTab replaced the viewer
\* with the empty state during it.
C3_RenderDoneRebuildsRegistry ==
  ev.op = "renderDone" =>
    /\ HasPages(ev.tab)
    /\ IsRebuiltBy(PagesOf(ev.tab), ev.pass, ev.tab, handles[ev.doc].numPages)
    /\ ev.alone => viewer = PagesOf(ev.tab)

\* A second pass over a tab completes undisturbed, with two pages.
C3_Witness ==
  /\ ev.op = "renderDone"
  /\ ev.pass = 2
  /\ ev.alone
  /\ Len(viewer) = 2
  /\ \E h \in 1..Len(handles) : handles[h].tab = ev.tab /\ h = ev.doc

\* C4 (as claimed): at most one page render is in flight in any state.
C4_OnePageRenderInFlight == Cardinality(renders) <= 1

\* C4 (amended): within one renderDocument pass pages render one at a time:
\* the pass has one createPageContainer call in flight, for page k, exactly
\* when it holds the containers of pages 1..k-1 in order, and page k+1 is
\* started only in the step that appended page k's container to the viewer.
\* Passes of different calls are not serialised against each other.
C4_OnePageAtATimePerPass ==
  /\ \A r \in renders :
       /\ IsRebuiltBy(r.pages, r.id, r.tab, r.pageNum - 1)
       /\ r.pageNum <= handles[r.doc].numPages
  /\ \A r1, r2 \in renders : r1.id = r2.id => r1 = r2
  /\ ev.op = "pageDone" =>
       /\ viewer # <<>>
       /\ IsPageOf(viewer[Len(viewer)], ev.pass, ev.tab, ev.page)
       /\ \E r \in renders : r.id = ev.pass /\ r.pageNum = ev.page + 1

\* A pass has appended page 1 and has page 2 in flight beside another pass.
C4_Witness ==
  /\ ev.op = "pageDone"
  /\ Cardinality(renders) = 2
  /\ \E r \in renders : r.id = ev.pass /\ r.pageNum = 2

StillInFlight(r) ==
  \E r2 \in renders' :
    /\ r2.id = r.id
    /\ r2.tab = r.tab
    /\ r2.doc = r.doc
    /\ r2.pageNum >= r.pageNum
    /\ r2.pageNum = r.pageNum => r2.pages = r.pages

CompletedNow(r) ==
  /\ ev'.op = "renderDone"
  /\ ev'.pass = r.id
  /\ pageElements'[r.tab] # <<>>
  /\ IsRebuiltBy(pageElements'[r.tab][1], r.id, r.tab, handles[r.doc].numPages)
  /\ viewer' # <<>>
  /\ IsPageOf(viewer'[Len(viewer')], r.id, r.tab, handles[r.doc].numPages)

ThrewNow(r) ==
  /\ ev'.op = "renderFailed"
  /\ ev'.pass = r.id
  /\ ev'.occurred.src \in {"page", "type"}

C6_LoadFailureAlertsOnceAndRethrows ==
  /\ ev.loadResult = "rejected" =>
       /\ ev.alerts = 1
       /\ ev.occurred # NoError
       /\ ev.thrown = ev.occurred
       /\ \A l \in loads : l.id # ev.load
       /\ \A r \in renders : r.caller.load # ev.load
  /\ ev.loadResult = "ok" =>
       /\ ev.alerts = 0
       /\ ev.returned \in 1..Len(handles)
       /\ handles[ev.returned].load = ev.load
       /\ handles[ev.returned].tab = ev.tab
  /\ ev.loadResult = "none" => ev.alerts = 0
  /\ \A h1, h2 \in 1..Len(handles) : handles[h1].load = handles[h2].load => h1 = h2

\* A load is rejected by a page of its first render failing.
C6_Witness ==
  /\ ev.loadResult = "rejected"
  /\ ev.occurred.src = "page"
  /\ ev.alerts = 1

\* C7: a text layer failure on a page is swallowed: the container of that page
\* is still appended, with canvas, text layer and annotation layer; the pass
\* goes on to the remaining pages and registers all numPages containers; no
\* render or load fails, and no alert is raised, because of it.
C7_TextLayerFailureSwallowed ==
  /\ (ev.op \in {"pageDone", "renderDone", "renderFailed"} /\ ~ev.textOk) =>
       /\ ev.occurred.src \in {"none", "type"}
       /\ ev.alerts > 0 => ev.occurred.src = "type"
       /\ viewer # <<>>
       /\ IsPageOf(viewer[Len(viewer)], ev.pass, ev.tab, ev.page)
       /\ ~viewer[Len(viewer)].text
       /\ ev.page < handles[ev.doc].numPages /\ tabs[ev.tab].exists =>
            \E r \in renders : r.id = ev.pass /\ r.pageNum = ev.page + 1
  /\ ev.op = "renderDone" =>
       /\ HasPages(ev.tab)
       /\ IsRebuiltBy(PagesOf(ev.tab), ev.pass, ev.tab, handles[ev.doc].numPages)

\* A load succeeds with two pages registered though page 1 has no text.
C7_Witness ==
  /\ ev.op = "renderDone"
  /\ ev.loadResult = "ok"
  /\ Len(PagesOf(ev.tab)) = 2
  /\ ~PagesOf(ev.tab)[1].text

\* C9 (as claimed): a setZoom, fitToWidth, setRotation or setPageLayout call
\* for a tab with a document and a tab record starts one pass, and the pass
\* renders with the value passed to the call.
C9_PassRendersRequestedValue ==
  /\ (ev.op \in {"setZoom", "fitToWidthResumed", "setRotation", "setPageLayout"}
        /\ HasDoc(ev.tab) /\ tabs[ev.tab].exists) =>
       \E r \in renders : r.id = ev.started /\ r.pageNum = 1 /\ r.pages = <<>>
  /\ \A r \in renders :
       /\ (ev.op \in {"setZoom", "fitToWidthResumed"} /\ r.id = ev.started) =>
            r.scale = ev.arg
       /\ (ev.op = "setRotation" /\ r.id = ev.started) => r.rotation = ev.arg
       /\ (ev.op = "setPageLayout" /\ r.id = ev.started) =>
            twoPage = (ev.arg = 2)

\* What holds of the scroll listener in every state.
C8_DebounceSafety ==
  /\ Cardinality(timers) <= 1
  /\ \A tm \in timers : tm.id = scrollTimeout
  /\ ev.op = "detect" =>
       /\ ev.since >= Delay
       /\ timers = {}
  /\ (ev.op = "scroll" /\ ev.tab # 0) =>
       /\ tabs[ev.tab].scrollPosition = scrollTop
       /\ scrollTop = ev.arg
       /\ sinceScroll = 0
       /\ \E tm \in timers : tm.left = Delay /\ tm.tab = ev.tab

\* C8: at most one detection timer is pending; detectCurrentPage runs only
\* when 100 ms have passed since the last scroll event with an active tab, and
\* then no timer is left, so a burst of scroll events causes one detection,
\* after its last event; every scroll event with an active tab is followed by
\* a detection; the scroll position is saved to the active tab in the scroll
\* event itself.
C8_Debounce ==
  /\ []C8_DebounceSafety
  /\ (ev.op = "scroll" /\ ev.tab # 0) ~> (ev.op = "detect")

\* One detection stands for a burst of two scroll events, and writes.
C8_Witness ==
  /\ ev.op = "detect"
  /\ ev.arg = 2
  /\ ev.wrote = 1
  /\ scrollsLeft = MaxScrolls - 2

\* What holds after a goToPage or a detectCurrentPage.
C10_WritesValidPage ==
  /\ (ev.op \in {"goToPage", "detect"} /\ ev.wrote > 0) =>
       /\ ev.wrote = 1
       /\ HasPages(ev.tab)
       /\ ev.page >= 1
       /\ ev.page <= Len(PagesOf(ev.tab))
       /\ tabs[ev.tab].exists => tabs[ev.tab].currentPage = ev.page
       /\ pageNumberInput = ev.page
       /\ sidebarPage[ev.tab] = ev.page
  /\ (ev.op = "detect" /\ ev.wrote > 0) => ev.page # ev.prev
  /\ (ev.op = "goToPage" /\ ev.wrote > 0) => ev.page = ev.arg
  /\ (ev.op = "goToPage" /\ ev.wrote = 0) =>
       \/ ~HasPages(ev.tab)
       \/ ev.arg < 1
       \/ ev.arg > Len(PagesOf(ev.tab))

\* A step that is a goToPage with no registered sequence or a page number out
\* of range, or a detectCurrentPage that writes nothing, leaves the tab
\* records, the page-number input and the sidebar as they were.
C10_NoWriteNoChange ==
  ((ev'.op = "goToPage" /\ (~HasPages(ev'.tab) \/ ev'.arg < 1
                               \/ ev'.arg > Len(PagesOf(ev'.tab))))
     \/ (ev'.op = "detect" /\ ev'.wrote = 0))
  => UNCHANGED <<tabs, pageNumberInput, sidebarPage>>

\* C10: goToPage and detectCurrentPage write currentPage = p to a tab, the
\* page-number input and the sidebar only with 1 <= p <= the length of the
\* tab's registered page sequence; goToPage with no registered sequence or
\* with pageNum out of that range changes none of them; detectCurrentPage
\* writes at most once per call and never the page the tab is already on.
C10_CurrentPageWrites ==
  /\ []C10_WritesValidPage
  /\ [][C10_NoWriteNoChange]_vars

\* A detection with two pages at the centre writes the first of them only.
C10_Witness ==
  /\ ev.op = "detect"
  /\ ev.wrote = 1
  /\ ev.page = 2
  /\ ev.prev = 1
  /\ Len(PagesOf(ev.tab)) = 2

====
